---- MODULE Spec2Model ----
(***************************************************************************)
(* Slide classification pipeline of waliens/weakseg:                       *)
(*   challenge/tissuenet-submit-classif-e2e/assets/inference.py            *)
(*   challenge/tissuenet-submit-classif-e2e-rf/main.py                     *)
(*                                                                         *)
(* The specifications of this module:                                      *)
(*   Spec       main's loop over the slides and the steps of classify      *)
(*   SpecInfer  the inference loop and the decision of classify on one     *)
(*              slide, from every dataset classify can build               *)
(*   SpecIndex  MultiPolygonFilteredTopologyDataset.__getitem__ on a       *)
(*              dataset of given per-polygon sizes                         *)
(*   SpecMerge  the merge loop of foreground_detect on a list of polygons  *)
(*   SpecMergeLive  the same, the loop taking its turns as long as it can  *)
(*   SpecFn     determine_tissue_extract_level and the area and shape      *)
(*              filters of foreground_detect, on given arguments           *)
(*   SpecFilter TileExclusionDataset: _prepare, then __getitem__           *)
(*   SpecLoader the DataLoader's workers and the loop that consumes them   *)
(*   SpecTrain  training/generic_train.py, main: the argument checks, the  *)
(*              set-up and the loop over the epochs                        *)
(* Python's 0-based positions are kept as values (class ids, flat indexes, *)
(* dataset indexes); TLA+ sequences are 1-based, so position k of a Python *)
(* list is element k + 1 of the sequence that models it.                   *)
(***************************************************************************)
EXTENDS Integers, Sequences, FiniteSets, TLC

\* ---------------------------------------------------------------- bounds
\* number of rows of data/test_metadata.csv (len(test_files))
NumSlides == 2
\* longest list of tissue polygons foreground_detect hands to classify
MaxPolys == 2
\* largest number of tiles of one slide's dataset
MaxTiles == 3
\* batch_size of the DataLoader
BatchSize == 2
\* tile_size (max_width = max_height) of the topologies
TileSize == 2
\* number of points of the plane the merge step's polygons are drawn over
NumCells == 3
\* longest polygon list entering the merge step
MaxMerge == 3
\* largest filtered size of one polygon's dataset in SpecIndex
MaxSize == 7
\* longest list of per-polygon datasets in SpecIndex
MaxDatasets == 3
\* desired_processing_size of determine_tissue_extract_level
TargetSize == 4
\* largest number of pages (levels) of a slide
MaxLevels == 3
\* the shape filter is given boxes of sides 1..ASPECT_LIMIT * ShapeEdge + 1
ShapeEdge == 2
\* largest side of the image the area filter works on
MaxEdge == 200
\* largest area of a component, in half pixels
MaxArea2 == 5
\* largest number of tiles of the topology of one polygon in SpecFilter
MaxTopo == 4
\* the sides of the image of the structuring element go up to 200 * KernelSteps
KernelSteps == 6
\* largest args.epochs and args.sparse_start_after of generic_train.main
MaxEpochs == 3
\* largest num_workers of the DataLoader (args.n_jobs - 1)
MaxWorkers == 2
\* largest number of batches of one slide in SpecLoader
MaxBatches == 3

\* ------------------------------------------------------------- constants
N_CLASSES == 4
\* filter_by_shape: the ratio of the sides is compared with 20
ASPECT_LIMIT == 20
\* area_ratio = 0.005, in thousandths
AREA_RATIO_THOUSANDTHS == 5
\* the factor 0.005 of kernel_dim, in thousandths
KERNEL_RATIO_THOUSANDTHS == 5
\* the smallest kernel_dim
KERNEL_MIN == 3

VARIABLES
    pc,          \* main: "loop" | "try" | "next" | "done"
    i,           \* main: position of the current slide, 1..NumSlides (+1 at the end)
    x,           \* main: the rows x[i] (per-class counts handed to the forest)
    cpc,         \* classify: "Idle" | "DetectingForeground" | "NoTissue" |
                 \*   "BuildingDataset" | "Inferring" | "Decided" | "Raised"
    tissues,     \* classify: polygons returned by foreground_detect (bounding windows)
    sizes,       \* dataset: _sizes, the filtered size of each per-polygon dataset
    cumsum,      \* dataset: _cumsum_sizes
    probas,      \* classify: the probas array, one row per tile
    index,       \* classify: the write position in probas
    ret,         \* classify: the returned value, [kind |-> "none"] before it returns
    err,         \* the exception in flight, "none" when there is none
    log,         \* what the run printed and did for each slide
    opens,       \* pyvips.Image.new_from_file calls made for the current slide
    held,        \* the locals of live frames that refer to an image of the slide
    call,        \* SpecFn: the function called, its arguments and its locals
    out,         \* SpecFn: what it returned, [kind |-> "none"] before it returns
    topology,    \* SpecFilter: for each tile, in order, what check_fn answers
    evals,       \* SpecFilter: the tile identifiers check_fn was called on, in order
    filtered_identifiers,   \* SpecFilter: _filtered_identifiers
    tpc,         \* SpecFilter: "prepare" | "ready"
    getArg,      \* SpecIndex: the argument of the last __getitem__ call
    getRes,      \* SpecIndex: what that call produced
    filtered,    \* SpecMerge: the list that entered the merge step
    to_check_for_merge,
    checked_for_merge,
    mpc,         \* SpecMerge: "merge" | "merged"
    slide_no,    \* SpecLoader: position of the slide main is at
    num_workers, \* SpecLoader: num_workers of every DataLoader of the run
    n_batches,   \* SpecLoader: len(loader) of the slide
    workers,     \* SpecLoader: the batch each worker is loading, NoTask if none
    ready,       \* SpecLoader: the batches loaded and not yet taken by the loop
    send_idx,    \* SpecLoader: the next batch number handed to a worker
    rcvd_idx,    \* SpecLoader: the next batch number the loop of classify takes
    forwarding,  \* SpecLoader: the model.forward invocations in progress
    forwarded,   \* SpecLoader: the batches of the slide forward was called on
    lpc,         \* SpecLoader: "loop" | "forward" | "done"
    args,        \* SpecTrain: the parsed arguments of generic_train.main
    trpc,        \* SpecTrain: "check" | "setup" | "loop" | "eval" | "returned" |
                 \*   "raised"
    e,           \* SpecTrain: the epoch of the for loop
    made,        \* SpecTrain: the directories and objects created so far
    incomplete,  \* SpecTrain: the incomplete (sparse) dataset, by its origin
    sched_log,   \* SpecTrain: creations and steps of the scheduler, in order
    trained_on,  \* SpecTrain: for each epoch run, the incomplete dataset of its
                 \*   training loader
    results      \* SpecTrain: the lists of the results dictionary

vars == <<pc, i, x, cpc, tissues, sizes, cumsum, probas, index, ret, err, log,
          opens, held, call, out, topology, evals, filtered_identifiers, tpc,
          getArg, getRes, filtered, to_check_for_merge, checked_for_merge, mpc,
          slide_no, num_workers, n_batches, workers, ready, send_idx, rcvd_idx,
          forwarding, forwarded, lpc,
          args, trpc, e, made, incomplete, sched_log, trained_on, results>>

mainVars == <<pc, i, x, cpc, tissues, sizes, cumsum, probas, index, ret, err, log,
              opens, held>>
indexVars == <<getArg, getRes>>
mergeVars == <<filtered, to_check_for_merge, checked_for_merge, mpc>>
fnVars == <<call, out>>
filterVars == <<topology, evals, filtered_identifiers, tpc>>
loaderVars == <<slide_no, num_workers, n_batches, workers, ready, send_idx,
                rcvd_idx, forwarding, forwarded, lpc>>
trainVars == <<args, trpc, e, made, incomplete, sched_log, trained_on, results>>
\* what the actions of main and classify leave alone
notMainVars == <<indexVars, mergeVars, fnVars, filterVars, loaderVars, trainVars>>

\* --------------------------------------------------------------- helpers
Min(a, b) == IF a < b THEN a ELSE b

RECURSIVE SumSeq(_)
SumSeq(s) == IF s = <<>> THEN 0 ELSE s[1] + SumSeq(Tail(s))

\* all sequences over S of length lo..hi
SeqsOf(S, lo, hi) == UNION {[1..n -> S] : n \in lo..hi}

\* ------------------------------------------------- the dataset (pure part)
\* Python's list and numpy's 1-d indexing with an integer k on a container
\* of length n: 0 <= k < n is position k, -n <= k < 0 counts from the end,
\* anything else raises IndexError.
PyIndex(n, k) ==
    IF 0 <= k /\ k < n THEN [ok |-> TRUE, pos |-> k]
    ELSE IF -n <= k /\ k < 0 THEN [ok |-> TRUE, pos |-> n + k]
    ELSE [ok |-> FALSE, pos |-> 0]

\* np.cumsum(s)
RECURSIVE np_cumsum(_)
np_cumsum(s) ==
    IF s = <<>> THEN <<>>
    ELSE LET n == Len(s)
             head == np_cumsum(SubSeq(s, 1, n - 1))
         IN  Append(head, (IF n = 1 THEN 0 ELSE head[n - 1]) + s[n])

\* the inclusive prefix sums, np.cumsum(sizes), in place of the exclusive ones
datasets_size_cumsum_inclusive(lens) ==
    [sizes |-> lens, cumsum |-> np_cumsum(lens)]

\* datasets_size_cumsum: lens is [len(d) for d in datasets]; returns the
\* pair (sizes, cumsum) with cumsum = [0] ++ cumsum(sizes[:-1])
datasets_size_cumsum(lens) ==
    [sizes |-> lens,
     cumsum |-> <<0>> \o np_cumsum(SubSeq(lens, 1, Len(lens) - 1))]

\* the binary search of np.searchsorted, on the 0-based half-open range
\* [lo, hi) of a; leftSide is side="left" (a[mid] < v), else side="right"
RECURSIVE BinSearch(_, _, _, _, _)
BinSearch(a, v, lo, hi, leftSide) ==
    IF lo >= hi THEN lo
    ELSE LET mid == lo + ((hi - lo) \div 2)
             goRight == IF leftSide THEN a[mid + 1] < v ELSE a[mid + 1] <= v
         IN  IF goRight THEN BinSearch(a, v, mid + 1, hi, leftSide)
             ELSE BinSearch(a, v, lo, mid, leftSide)

searchsorted_left(a, v) == BinSearch(a, v, 0, Len(a), TRUE)

\* np.searchsorted(cumsum, index, side="right")
searchsorted(a, v) == BinSearch(a, v, 0, Len(a), FALSE)

\* get_sample_indexes: cumsum[dataset_index] is numpy indexing, so a
\* dataset_index of -1 reads the last entry
get_sample_indexes(idx, cs) ==
    LET dataset_index == searchsorted(cs, idx) - 1
        at == PyIndex(Len(cs), dataset_index)
    IN  [dataset_index |-> dataset_index,
         relative_index |-> idx - cs[at.pos + 1]]

NoItem == [kind |-> "IndexError", dataset |-> 0, pos |-> 0, ordinal |-> 0]
NoCall == [kind |-> "none", dataset |-> 0, pos |-> 0, ordinal |-> 0]

\* a __getitem__ that returns the dense index itself as the ordinal
TileExclusionGetItemZeroBased(d, n, item) ==
    LET at == PyIndex(n, item)
    IN  IF at.ok
        THEN [kind |-> "item", dataset |-> d, pos |-> at.pos, ordinal |-> item]
        ELSE NoItem

\* TileExclusionDataset.__getitem__ of per-polygon dataset d (0-based) holding
\* n filtered identifiers: reads self._filtered_identifiers[item], a Python
\* list, and returns (item + 1, image of that tile)
TileExclusionGetItem(d, n, item) ==
    LET at == PyIndex(n, item)
    IN  IF at.ok
        THEN [kind |-> "item", dataset |-> d, pos |-> at.pos, ordinal |-> item + 1]
        ELSE NoItem

\* MultiPolygonFilteredTopologyDataset.__getitem__: self._datasets is a
\* Python list indexed by dataset_index
MultiGetItem(sz, cs, idx) ==
    LET si == get_sample_indexes(idx, cs)
        at == PyIndex(Len(sz), si.dataset_index)
    IN  IF at.ok
        THEN TileExclusionGetItem(at.pos, sz[at.pos + 1], si.relative_index)
        ELSE NoItem

\* MultiPolygonFilteredTopologyDataset.__len__
DatasetLen(sz, cs) == cs[Len(cs)] + sz[Len(sz)]

\* ------------------------------------------------------ classify (pure part)
\* rows the classifier followed by softmax can produce, in quarters: every
\* row sums to 1; two of them have their maximum twice
ProbaRows ==
    { <<2, 2, 0, 0>>, <<0, 2, 2, 0>>, <<0, 0, 1, 3>> }

\* np.zeros([n, n_classes])
np_zeros(n) == [k \in 1..n |-> [c \in 1..N_CLASSES |-> 0]]

\* the 1-based position of the first maximum of one row
np_argmax_OneBased(row) ==
    CHOOSE c \in 1..Len(row) :
        /\ \A d \in 1..Len(row) : row[d] <= row[c]
        /\ \A d \in 1..(c - 1) : row[d] < row[c]

\* np.argmax of one row: the 0-based position of the first maximum
np_argmax(row) ==
    (CHOOSE c \in 1..Len(row) :
        /\ \A d \in 1..Len(row) : row[d] <= row[c]
        /\ \A d \in 1..(c - 1) : row[d] < row[c]) - 1

\* np.argmax(probas, axis=1)
ArgmaxRows(p) == [k \in 1..Len(p) |-> np_argmax(p[k])]

\* number of entries of classes equal to c
RECURSIVE CountOf(_, _)
CountOf(classes, c) ==
    IF classes = <<>> THEN 0
    ELSE (IF classes[1] = c THEN 1 ELSE 0) + CountOf(Tail(classes), c)

\* inference.py:241, the class_dict that classify prints: the number of tiles
\* of each class (np.unique leaves out the classes with no tile, here 0)
class_dict(classes) == [c \in 0..(N_CLASSES - 1) |-> CountOf(classes, c)]

\* the class with the most entries in classes, the lowest such class on a tie
MostVoted(classes) ==
    CHOOSE c \in 0..(N_CLASSES - 1) :
        /\ \A d \in 0..(N_CLASSES - 1) : CountOf(classes, d) <= CountOf(classes, c)
        /\ \A d \in 0..(c - 1) : CountOf(classes, d) < CountOf(classes, c)

\* np.max(classes) of a non-empty 1-d array
RECURSIVE np_max(_)
np_max(classes) ==
    IF Len(classes) = 1 THEN classes[1]
    ELSE LET m == np_max(Tail(classes))
         IN  IF classes[1] > m THEN classes[1] ELSE m

\* what classify can return or main can hold
None == [kind |-> "none", val |-> 0]
IntValue(v) == [kind |-> "int", val |-> v]

\* bounding windows of the tissue polygons at the zoom level of the slide:
\* narrower than a tile, lower than a tile, or exactly one tile
Windows ==
    { [width |-> TileSize - 1, height |-> TileSize],
      [width |-> TileSize, height |-> TileSize - 1],
      [width |-> TileSize, height |-> TileSize] }

\* the condition of the list comprehension of
\* MultiPolygonFilteredTopologyDataset.__init__
LargeEnough(t) == t.width >= TileSize /\ t.height >= TileSize

\* ------------------------------------------------------------- the log
\* per slide: how classify ended (term), where and with what it raised (stage,
\* error), and whether main printed "error during prediction ... predicting
\* 0" (fallback)
NoLog == [term |-> "none", stage |-> "none", error |-> "none", fallback |-> FALSE]

\* a fallback row with the vote on another class
FALLBACK_ROW_Class1 == <<0, 1, 0, 0>>

\* main.py:84, np.array([1.0, .0, .0, .0]) stored in the integer array x
FALLBACK_ROW == <<1, 0, 0, 0>>

\* ------------------------------------------------------------- Spec: Init
IdleIndex == getArg = 0 /\ getRes = NoCall
IdleFn == call = [fn |-> "none"] /\ out = None
IdleFilter ==
    /\ topology = <<>>
    /\ evals = <<>>
    /\ filtered_identifiers = <<>>
    /\ tpc = "idle"
\* generic_train.py:174-180, the results dictionary before the first epoch
\* (train_losses, one entry per batch, is left out)
NoResults == [val_losses |-> <<>>, val_dice |-> <<>>, val_metrics |-> <<>>,
              save_path |-> <<>>]
EmptyIncomplete == [origin |-> "empty", epoch |-> -1, cue_only |-> FALSE]
IdleTrain ==
    /\ args = [epochs |-> 0]
    /\ trpc = "idle"
    /\ e = 0
    /\ made = {}
    /\ incomplete = EmptyIncomplete
    /\ sched_log = <<>>
    /\ trained_on = <<>>
    /\ results = NoResults
\* no task: what an idle worker holds
NoTask == [slide |-> 0, batch |-> 0]
IdleLoader ==
    /\ slide_no = 0
    /\ num_workers = 0
    /\ n_batches = 0
    /\ workers = <<>>
    /\ ready = {}
    /\ send_idx = 0
    /\ rcvd_idx = 0
    /\ forwarding = {}
    /\ forwarded = <<>>
    /\ lpc = "idle"
IdleMain ==
    /\ i = 1
    /\ x = <<>>
    /\ cpc = "Idle"
    /\ tissues = <<>>
    /\ probas = <<>>
    /\ index = 0
    /\ ret = None
    /\ err = "none"
    /\ log = <<>>
    /\ opens = 0
    /\ held = {}
IdleMerge ==
    /\ filtered = <<>>
    /\ to_check_for_merge = <<>>
    /\ checked_for_merge = <<>>
    /\ mpc = "idle"

Init ==
    /\ pc = "loop"
    /\ i = 1
    /\ x = [s \in 1..NumSlides |-> [c \in 1..N_CLASSES |-> 0]]
    /\ cpc = "Idle"
    /\ tissues = <<>>
    /\ sizes = <<>>
    /\ cumsum = <<>>
    /\ probas = <<>>
    /\ index = 0
    /\ ret = None
    /\ err = "none"
    /\ log = [s \in 1..NumSlides |-> NoLog]
    /\ opens = 0
    /\ held = {}
    /\ IdleIndex
    /\ IdleMerge
    /\ IdleFn
    /\ IdleFilter
    /\ IdleLoader
    /\ IdleTrain

\* an exception leaves classify: its frame is gone, the error is in flight
Raise(kind) ==
    /\ cpc' = "Raised"
    /\ err' = kind
    /\ log' = [log EXCEPT ![i].term = "Raised", ![i].stage = cpc, ![i].error = kind]

\* ---------------------------------------------------------- Spec: classify
\* main.py:63-79, the for loop enters its body and calls classify
MainCall ==
    /\ pc = "loop" /\ i <= NumSlides
    /\ pc' = "try"
    /\ cpc' = "DetectingForeground"
    /\ UNCHANGED <<i, x, tissues, sizes, cumsum, probas, index, ret, err, log>>
    /\ UNCHANGED <<opens, held>>
    /\ UNCHANGED notMainVars

\* detection without the early return of lines 214-216
ClassifyDetectNoEarlyReturn ==
    /\ pc = "try" /\ cpc = "DetectingForeground"
    /\ \E ts \in SeqsOf(Windows, 0, MaxPolys) : tissues' = ts
    /\ cpc' = "BuildingDataset"
    /\ UNCHANGED <<pc, i, x, sizes, cumsum, probas, index, ret, err, log>>
    /\ opens' = opens + 2
    /\ held' = held
    /\ UNCHANGED notMainVars

\* inference.py:209-212, foreground_detect returns a list of polygons
\* (possibly empty) which classify rescales; 214-216, none: return 0
ClassifyDetect ==
    /\ pc = "try" /\ cpc = "DetectingForeground"
    /\ \E ts \in SeqsOf(Windows, 0, MaxPolys) :
        /\ tissues' = ts
        /\ IF Len(ts) = 0
           THEN /\ cpc' = "NoTissue"
                /\ ret' = IntValue(0)
                /\ log' = [log EXCEPT ![i].term = "NoTissue"]
           ELSE /\ cpc' = "BuildingDataset"
                /\ UNCHANGED <<ret, log>>
    /\ UNCHANGED <<pc, i, x, sizes, cumsum, probas, index, err>>
    /\ opens' = opens + 2
    /\ held' = held
    /\ UNCHANGED notMainVars

\* inference.py:153, Otsu's threshold fails on an image with no pixel in
\* (75, 250)
ClassifyDetectRaise ==
    /\ pc = "try" /\ cpc = "DetectingForeground"
    /\ Raise("DetectionError")
    /\ UNCHANGED <<pc, i, x, tissues, sizes, cumsum, probas, index, ret>>
    /\ opens' = opens + 2
    /\ held' = {"vips_image"}
    /\ UNCHANGED notMainVars

\* inference.py:218-233, MultiPolygonFilteredTopologyDataset.__init__ (91-105):
\* the polygons whose window is smaller than a tile are filtered out and the
\* pair of tuples is taken from zip(*kept), which has nothing to unpack when
\* kept is empty; then the per-polygon datasets, their sizes, the loader and
\* the zeroed probas
ClassifyBuild ==
    /\ pc = "try" /\ cpc = "BuildingDataset"
    /\ LET kept == SelectSeq(tissues, LargeEnough)
       IN  IF kept = <<>>
           THEN /\ Raise("ValueError")
                /\ UNCHANGED <<sizes, cumsum, probas, index>>
           ELSE \E lens \in [1..Len(kept) -> 0..MaxTiles] :
                /\ SumSeq(lens) <= MaxTiles
                /\ LET sc == datasets_size_cumsum(lens)
                   IN  /\ sizes' = sc.sizes
                       /\ cumsum' = sc.cumsum
                       /\ probas' = np_zeros(DatasetLen(sc.sizes, sc.cumsum))
                /\ log' = log
                /\ index' = 0
                /\ cpc' = "Inferring"
                /\ err' = err
    /\ UNCHANGED <<pc, i, x, tissues, ret>>
    /\ held' = {"slide"}
    /\ opens' = opens
    /\ UNCHANGED notMainVars

\* a turn of the loop that stores every batch at the start of probas
ClassifyInferBatchAtStart ==
    /\ pc = "try" /\ cpc = "Inferring"
    /\ index < DatasetLen(sizes, cumsum)
    /\ LET n_samples == Min(BatchSize, DatasetLen(sizes, cumsum) - index)
       IN  \E rows \in [1..n_samples -> ProbaRows] :
                /\ probas' = [k \in 1..Len(probas) |->
                                 IF k <= n_samples THEN rows[k] ELSE probas[k]]
                /\ index' = index + n_samples
                /\ UNCHANGED <<cpc, err, log>>
    /\ UNCHANGED <<pc, i, x, tissues, sizes, cumsum, ret>>
    /\ UNCHANGED <<opens, held>>
    /\ UNCHANGED notMainVars

\* inference.py:234-238, one turn of the loop over the loader: the loader
\* reads dataset[index] .. dataset[index + n_samples - 1], the model is
\* called once on the batch and the rows are written to probas
ClassifyInferBatch ==
    /\ pc = "try" /\ cpc = "Inferring"
    /\ index < DatasetLen(sizes, cumsum)
    /\ LET n_samples == Min(BatchSize, DatasetLen(sizes, cumsum) - index)
           items == [k \in 1..n_samples |-> MultiGetItem(sizes, cumsum, index + k - 1)]
       IN  IF \E k \in 1..n_samples : items[k].kind = "IndexError"
           THEN /\ Raise("IndexError")
                /\ UNCHANGED <<probas, index>>
           ELSE \E rows \in [1..n_samples -> ProbaRows] :
                /\ probas' = [k \in 1..Len(probas) |->
                                 IF index < k /\ k <= index + n_samples
                                 THEN rows[k - index] ELSE probas[k]]
                /\ index' = index + n_samples
                /\ UNCHANGED <<cpc, err, log>>
    /\ UNCHANGED <<pc, i, x, tissues, sizes, cumsum, ret>>
    /\ UNCHANGED <<opens, held>>
    /\ UNCHANGED notMainVars

\* inference.py:237, model.forward raises on the batch
ClassifyInferRaise ==
    /\ pc = "try" /\ cpc = "Inferring"
    /\ index < DatasetLen(sizes, cumsum)
    /\ Raise("InferenceError")
    /\ UNCHANGED <<pc, i, x, tissues, sizes, cumsum, probas, index, ret>>
    /\ UNCHANGED <<opens, held>>
    /\ UNCHANGED notMainVars

\* a decision that is the class of the tile processed last
DecisionLastTile(classes) == classes[Len(classes)]

\* a decision by majority vote instead of np.max
DecisionMostVoted(classes) == MostVoted(classes)

\* the value of line 247 for a non-empty classes array
Decision(classes) == np_max(classes)

\* a decision that is class 0 when there is no tile
ClassifyDecideEmptyIsClass0 ==
    /\ pc = "try" /\ cpc = "Inferring"
    /\ index >= DatasetLen(sizes, cumsum)
    /\ LET classes == ArgmaxRows(probas)
       IN  ret' = IntValue(IF Len(classes) = 0 THEN 0 ELSE Decision(classes))
    /\ cpc' = "Decided"
    /\ log' = [log EXCEPT ![i].term = "Decided"]
    /\ held' = {}
    /\ UNCHANGED <<pc, i, x, tissues, sizes, cumsum, probas, index, opens, err>>
    /\ UNCHANGED notMainVars

\* a decision taken while batches are still to come
ClassifyDecideEarly ==
    /\ pc = "try" /\ cpc = "Inferring"
    /\ Len(probas) > 0
    /\ cpc' = "Decided"
    /\ ret' = IntValue(Decision(ArgmaxRows(probas)))
    /\ log' = [log EXCEPT ![i].term = "Decided"]
    /\ held' = {}
    /\ UNCHANGED <<pc, i, x, tissues, sizes, cumsum, probas, index, opens, err>>
    /\ UNCHANGED notMainVars

\* inference.py:240-247, the loader is exhausted: the per-tile classes, then
\* np.max(classes), which raises ValueError on an empty array; on return the
\* local slide is dropped with the frame, on a raise the traceback keeps it
ClassifyDecide ==
    /\ pc = "try" /\ cpc = "Inferring"
    /\ index >= DatasetLen(sizes, cumsum)
    /\ LET classes == ArgmaxRows(probas)
       IN  IF Len(classes) = 0
           THEN /\ Raise("ValueError")
                /\ ret' = ret
                /\ held' = held
           ELSE /\ cpc' = "Decided"
                /\ ret' = IntValue(Decision(classes))
                /\ log' = [log EXCEPT ![i].term = "Decided"]
                /\ err' = err
                /\ held' = {}
    /\ UNCHANGED <<pc, i, x, tissues, sizes, cumsum, probas, index, opens>>
    /\ UNCHANGED notMainVars

\* -------------------------------------------------------------- Spec: main
\* a handler whose exception outlives it, and with it the frame that raised
ClassifyFrameKept ==
    /\ cpc' = "Idle"
    /\ tissues' = <<>>
    /\ sizes' = <<>>
    /\ cumsum' = <<>>
    /\ probas' = <<>>
    /\ index' = 0
    /\ ret' = None
    /\ err' = "none"
    /\ opens' = 0
    /\ held' = held

\* the locals of classify are gone once main moves to the next slide (until
\* then the exception main holds keeps the frame that raised it)
ClassifyFrameGone ==
    /\ cpc' = "Idle"
    /\ tissues' = <<>>
    /\ sizes' = <<>>
    /\ cumsum' = <<>>
    /\ probas' = <<>>
    /\ index' = 0
    /\ ret' = None
    /\ err' = "none"
    /\ opens' = 0
    /\ held' = {}

\* main.py:68-80, classify returned: "cls_dict, _, _ = classify(...)" unpacks
\* three values, which raises TypeError on an int; with three values the row
\* is the counts of cls_dict
MainUnpack ==
    /\ pc = "try" /\ cpc \in {"NoTissue", "Decided"} /\ err = "none"
    /\ IF ret.kind = "tuple3"
       THEN /\ x' = [x EXCEPT ![i] = [c \in 1..N_CLASSES |-> ret.val[c]]]
            /\ pc' = "next"
            /\ err' = err
       ELSE /\ err' = "TypeError"
            /\ UNCHANGED <<pc, x>>
    /\ UNCHANGED <<i, cpc, tissues, sizes, cumsum, probas, index, ret, log>>
    /\ UNCHANGED <<opens, held>>
    /\ UNCHANGED notMainVars

\* a handler that lets the exception go: main stops at the failing slide
MainExceptPropagates ==
    /\ pc = "try" /\ err # "none"
    /\ pc' = "aborted"
    /\ UNCHANGED <<i, x, cpc, tissues, sizes, cumsum, probas, index, ret, err, log>>
    /\ UNCHANGED <<opens, held>>
    /\ UNCHANGED notMainVars

\* main.py:81-84, "except Exception": the two messages and the fallback row
MainExcept ==
    /\ pc = "try" /\ err # "none"
    /\ x' = [x EXCEPT ![i] = FALLBACK_ROW]
    /\ log' = [log EXCEPT ![i].fallback = TRUE]
    /\ pc' = "next"
    /\ UNCHANGED <<i, cpc, tissues, sizes, cumsum, probas, index, ret, err>>
    /\ UNCHANGED <<opens, held>>
    /\ UNCHANGED notMainVars

\* main.py:85 and 63, the progress line, then the loop takes the next slide
MainNext ==
    /\ pc = "next"
    /\ i' = i + 1
    /\ pc' = "loop"
    /\ ClassifyFrameGone
    /\ UNCHANGED <<x, log>>
    /\ UNCHANGED notMainVars

\* main.py:87-91, the loop is over: the forest predicts from x
MainFinish ==
    /\ pc = "loop" /\ i > NumSlides
    /\ pc' = "done"
    /\ UNCHANGED <<i, x, cpc, tissues, sizes, cumsum, probas, index, ret, err, log>>
    /\ UNCHANGED <<opens, held>>
    /\ UNCHANGED notMainVars

Next ==
    \/ MainCall
    \/ ClassifyDetect
    \/ ClassifyDetectRaise
    \/ ClassifyBuild
    \/ ClassifyInferBatch
    \/ ClassifyInferRaise
    \/ ClassifyDecide
    \/ MainUnpack
    \/ MainExcept
    \/ MainNext
    \/ MainFinish

Spec == Init /\ [][Next]_vars

\* ------------------------------------------------------------- SpecIndex
\* a dataset as __init__ leaves it: at least one per-polygon dataset, each of
\* any filtered size, 0 included
InitIndex ==
    /\ \E lens \in SeqsOf(0..MaxSize, 1, MaxDatasets) :
          /\ sizes = datasets_size_cumsum(lens).sizes
          /\ cumsum = datasets_size_cumsum(lens).cumsum
    /\ getArg = 0
    /\ getRes = NoCall
    /\ pc = "index"
    /\ IdleMain
    /\ IdleLoader
    /\ IdleTrain
    /\ IdleMerge
    /\ IdleFn
    /\ IdleFilter

\* dataset[idx] for any integer idx around the valid range; the dataset does
\* not change, so one call per behaviour shows every call
GetItem ==
    /\ pc = "index" /\ getRes = NoCall
    /\ \E idx \in (0 - SumSeq(sizes) - 2)..(SumSeq(sizes) + 2) :
          /\ getArg' = idx
          /\ getRes' = MultiGetItem(sizes, cumsum, idx)
    /\ UNCHANGED <<mainVars, trainVars, loaderVars, mergeVars, fnVars, filterVars>>

NextIndex == GetItem

SpecIndex == InitIndex /\ [][NextIndex]_vars

\* ------------------------------------------------------------- SpecMerge
\* a polygon is the set of points it covers: intersects is sharing a point,
\* union is the union of the point sets
Polygons == (SUBSET (1..NumCells)) \ {{}}

Intersects(p, q) == p \cap q # {}

\* the for loop of lines 178-182: the 1-based position of the first polygon
\* of rest that poly intersects, 0 when there is none (merged stays False)
FirstIntersectingAdjacent(poly, rest) ==
    IF rest # <<>> /\ Intersects(poly, rest[1]) THEN 1 ELSE 0

FirstIntersecting(poly, rest) ==
    IF \E j \in 1..Len(rest) : Intersects(poly, rest[j])
    THEN CHOOSE j \in 1..Len(rest) :
            /\ Intersects(poly, rest[j])
            /\ \A k \in 1..(j - 1) : ~Intersects(poly, rest[k])
    ELSE 0

\* inference.py:167-174, the polygons that passed the area filter; an empty
\* list returns at line 170 and never reaches the merge step
InitMerge ==
    /\ filtered \in SeqsOf(Polygons, 1, MaxMerge)
    /\ to_check_for_merge = filtered
    /\ checked_for_merge = <<>>
    /\ mpc = "merge"
    /\ pc = "merge"
    /\ IdleMain
    /\ IdleLoader
    /\ IdleTrain
    /\ sizes = <<>>
    /\ cumsum = <<>>
    /\ IdleIndex
    /\ IdleFn
    /\ IdleFilter

\* a turn that drops poly when it meets another polygon
MergeStepDropsPoly ==
    /\ mpc = "merge" /\ Len(to_check_for_merge) > 0
    /\ LET poly == Head(to_check_for_merge)
           rest == Tail(to_check_for_merge)
           j == FirstIntersecting(poly, rest)
       IN  IF j > 0
           THEN /\ to_check_for_merge' = rest
                /\ UNCHANGED checked_for_merge
           ELSE /\ to_check_for_merge' = rest
                /\ checked_for_merge' = Append(checked_for_merge, poly)
    /\ UNCHANGED <<filtered, mpc, mainVars, trainVars, loaderVars, indexVars, fnVars, filterVars>>

\* a turn that merges poly into another polygon and puts poly back
MergeStepKeepsPoly ==
    /\ mpc = "merge" /\ Len(to_check_for_merge) > 0
    /\ LET poly == Head(to_check_for_merge)
           rest == Tail(to_check_for_merge)
           j == FirstIntersecting(poly, rest)
       IN  IF j > 0
           THEN /\ to_check_for_merge' =
                      Append([rest EXCEPT ![j] = rest[j] \cup poly], poly)
                /\ UNCHANGED checked_for_merge
           ELSE /\ to_check_for_merge' = rest
                /\ checked_for_merge' = Append(checked_for_merge, poly)
    /\ UNCHANGED <<filtered, mpc, mainVars, trainVars, loaderVars, indexVars, fnVars, filterVars>>

\* inference.py:175-184, one turn of the while loop
MergeStep ==
    /\ mpc = "merge" /\ Len(to_check_for_merge) > 0
    /\ LET poly == Head(to_check_for_merge)
           rest == Tail(to_check_for_merge)
           j == FirstIntersecting(poly, rest)
       IN  IF j > 0
           THEN /\ to_check_for_merge' = [rest EXCEPT ![j] = rest[j] \cup poly]
                /\ UNCHANGED checked_for_merge
           ELSE /\ to_check_for_merge' = rest
                /\ checked_for_merge' = Append(checked_for_merge, poly)
    /\ UNCHANGED <<filtered, mpc, mainVars, trainVars, loaderVars, indexVars, fnVars, filterVars>>

\* inference.py:175, the while condition fails: the merge step is over
MergeExit ==
    /\ mpc = "merge" /\ Len(to_check_for_merge) = 0
    /\ mpc' = "merged"
    /\ UNCHANGED <<filtered, to_check_for_merge, checked_for_merge>>
    /\ UNCHANGED <<mainVars, trainVars, loaderVars, indexVars, fnVars, filterVars>>

NextMerge == MergeStep \/ MergeExit

SpecMerge == InitMerge /\ [][NextMerge]_vars

\* the merge loop is sequential code: it goes on as long as it can
SpecMergeLive == SpecMerge /\ WF_vars(NextMerge)

\* ------------------------------------------------------------- SpecInfer
\* The inference of classify on one slide, from the state ClassifyBuild
\* leaves for the first slide: the dataset is built, probas is zeroed and the
\* loop over the loader is about to start.
InitInfer ==
    /\ pc = "try"
    /\ i = 1
    /\ x = [s \in 1..NumSlides |-> [c \in 1..N_CLASSES |-> 0]]
    /\ cpc = "Inferring"
    /\ \E ts \in SeqsOf(Windows, 1, MaxPolys) :
          /\ tissues = ts
          /\ LET kept == SelectSeq(ts, LargeEnough)
             IN  /\ kept # <<>>
                 /\ \E lens \in [1..Len(kept) -> 0..MaxTiles] :
                       /\ SumSeq(lens) <= MaxTiles
                       /\ LET sc == datasets_size_cumsum(lens)
                          IN  /\ sizes = sc.sizes
                              /\ cumsum = sc.cumsum
                              /\ probas = np_zeros(DatasetLen(sc.sizes, sc.cumsum))
    /\ index = 0
    /\ ret = None
    /\ err = "none"
    /\ log = [s \in 1..NumSlides |-> NoLog]
    /\ opens = 2
    /\ held = {"slide"}
    /\ IdleIndex
    /\ IdleMerge
    /\ IdleFn
    /\ IdleFilter
    /\ IdleLoader
    /\ IdleTrain

NextInfer == ClassifyInferBatch \/ ClassifyInferRaise \/ ClassifyDecide

SpecInfer == InitInfer /\ [][NextInfer]_vars

\* ---------------------------------------------------------------- SpecFn
Max(a, b) == IF a > b THEN a ELSE b

RECURSIVE Pow2(_)
Pow2(k) == IF k = 0 THEN 1 ELSE 2 * Pow2(k - 1)

BoolValue(b) == [kind |-> "bool", val |-> b]

\* the while condition of determine_tissue_extract_level with >= for >
LevelLoopCondGe(best_size, best_level, levels, desired) ==
    best_size >= desired /\ best_level < levels - 1

\* inference.py:134, the while condition
LevelLoopCond(best_size, best_level, levels, desired) ==
    best_size > desired /\ best_level < levels - 1

\* inference.py:129-133, the call: n-pages and the size of page 0 come from
\* get_image_meta, best_size starts at the longer side and best_level at 0
LevelCalls ==
    { [fn |-> "determine_tissue_extract_level",
       levels |-> l, max_height |-> h, max_width |-> w,
       desired_processing_size |-> TargetSize,
       best_size |-> Max(w, h), best_level |-> 0] :
         l \in 1..MaxLevels,
         h \in 1..(4 * TargetSize + 2),
         w \in 1..(4 * TargetSize + 2) }

\* a filter that also keeps a box whose sides are in the ratio 20
filter_by_shape_keeps_limit(width, height) ==
    IF width > height
    THEN width <= ASPECT_LIMIT * height
    ELSE height <= ASPECT_LIMIT * width

\* inference.py:186-196, filter_by_shape on the bounds of p: for positive
\* sides (width / height) < 20 is width < 20 * height
filter_by_shape(width, height) ==
    IF width > height
    THEN width < ASPECT_LIMIT * height
    ELSE height < ASPECT_LIMIT * width

\* the boxes of the merged polygons: their area is positive, so are their sides
ShapeCalls ==
    { [fn |-> "filter_by_shape", width |-> w, height |-> h] :
         w \in 1..(ASPECT_LIMIT * ShapeEdge + 1),
         h \in 1..(ASPECT_LIMIT * ShapeEdge + 1) }

\* a threshold rounded up instead of truncated
min_area_ceil(width, height) ==
    ((AREA_RATIO_THOUSANDTHS * width * height) + 99999) \div 100000

\* inference.py:166, min_area = int(area_ratio * width * height / 100) with
\* area_ratio = 0.005: the exact value truncated
min_area(width, height) ==
    (AREA_RATIO_THOUSANDTHS * width * height) \div 100000

\* inference.py:167, p.area > min_area, the area given in half pixels
area_kept(area2, width, height) == area2 > 2 * min_area(width, height)

AreaCalls ==
    { [fn |-> "area_filter", width |-> w, height |-> h, area2 |-> a] :
         w \in {MaxEdge \div 2, MaxEdge - 1, MaxEdge},
         h \in {MaxEdge \div 2, MaxEdge - 1, MaxEdge},
         a \in 0..MaxArea2 }

\* a kernel_dim left as it is when even
kernel_dim_unadjusted(height, width) ==
    Max((KERNEL_RATIO_THOUSANDTHS * Max(height, width)) \div 1000, KERNEL_MIN)

\* inference.py:151 and 157-158: max_dim = max(height, width),
\* kernel_dim = max(int(0.005 * max_dim), 3), kernel_dim -= 1 - kernel_dim % 2
kernel_dim(height, width) ==
    LET max_dim == Max(height, width)
        k == Max((KERNEL_RATIO_THOUSANDTHS * max_dim) \div 1000, KERNEL_MIN)
    IN  k - (1 - (k % 2))

\* image sizes around the multiples of 200, where int(0.005 * max_dim) steps
KernelCalls ==
    LET dims == {1} \cup {200 * k - 1 : k \in 1..KernelSteps}
                    \cup {200 * k : k \in 1..KernelSteps}
    IN  { [fn |-> "kernel_dim", height |-> h, width |-> w] :
             h \in dims, w \in dims }

InitFn ==
    /\ call \in LevelCalls \cup ShapeCalls \cup AreaCalls \cup KernelCalls
    /\ out = None
    /\ pc = "fn"
    /\ IdleMain
    /\ IdleLoader
    /\ IdleTrain
    /\ sizes = <<>>
    /\ cumsum = <<>>
    /\ IdleIndex
    /\ IdleMerge
    /\ IdleFilter

\* inference.py:134-136, one turn of the while loop
LevelLoop ==
    /\ pc = "fn" /\ call.fn = "determine_tissue_extract_level" /\ out = None
    /\ LevelLoopCond(call.best_size, call.best_level, call.levels,
                     call.desired_processing_size)
    /\ call' = [call EXCEPT !.best_size = call.best_size \div 2,
                            !.best_level = call.best_level + 1]
    /\ UNCHANGED <<out, mainVars, trainVars, loaderVars, indexVars, mergeVars, filterVars>>

\* inference.py:134 and 137, the condition fails: return best_level
LevelReturn ==
    /\ pc = "fn" /\ call.fn = "determine_tissue_extract_level" /\ out = None
    /\ ~LevelLoopCond(call.best_size, call.best_level, call.levels,
                      call.desired_processing_size)
    /\ out' = IntValue(call.best_level)
    /\ UNCHANGED <<call, mainVars, trainVars, loaderVars, indexVars, mergeVars, filterVars>>

\* inference.py:198-201, the comprehension asks filter_by_shape about p
FilterByShape ==
    /\ pc = "fn" /\ call.fn = "filter_by_shape" /\ out = None
    /\ out' = BoolValue(filter_by_shape(call.width, call.height))
    /\ UNCHANGED <<call, mainVars, trainVars, loaderVars, indexVars, mergeVars, filterVars>>

\* inference.py:166-167, the comprehension keeps or drops a component
AreaFilter ==
    /\ pc = "fn" /\ call.fn = "area_filter" /\ out = None
    /\ out' = BoolValue(area_kept(call.area2, call.width, call.height))
    /\ UNCHANGED <<call, mainVars, trainVars, loaderVars, indexVars, mergeVars, filterVars>>

\* inference.py:151-159, the side of the structuring element
KernelDim ==
    /\ pc = "fn" /\ call.fn = "kernel_dim" /\ out = None
    /\ out' = IntValue(kernel_dim(call.height, call.width))
    /\ UNCHANGED <<call, mainVars, trainVars, loaderVars, indexVars, mergeVars, filterVars>>

NextFn == LevelLoop \/ LevelReturn \/ FilterByShape \/ AreaFilter \/ KernelDim

SpecFn == InitFn /\ [][NextFn]_vars

\* ------------------------------------------------------------ SpecFilter
\* One TileExclusionDataset.  topology[k] is what check_fn answers for the
\* tile of identifier k; iterating the topology yields the tiles 1..n in
\* identifier order.  evals lists the tiles check_fn was called on, in call
\* order.
InitFilter ==
    /\ topology \in SeqsOf(BOOLEAN, 0, MaxTopo)
    /\ evals = <<>>
    /\ filtered_identifiers = <<>>
    /\ tpc = "prepare"
    /\ pc = "filter"
    /\ IdleMain
    /\ IdleLoader
    /\ IdleTrain
    /\ sizes = <<>>
    /\ cumsum = <<>>
    /\ IdleIndex
    /\ IdleMerge
    /\ IdleFn

\* a _prepare that keeps every tile it evaluates
PrepareStepKeepsAll ==
    /\ pc = "filter" /\ tpc = "prepare"
    /\ Len(evals) < Len(topology)
    /\ LET tile == Len(evals) + 1
       IN  /\ evals' = Append(evals, tile)
           /\ filtered_identifiers' = Append(filtered_identifiers, tile)
    /\ UNCHANGED <<topology, tpc, mainVars, trainVars, loaderVars, indexVars, mergeVars, fnVars>>

\* inference.py:61-63, one turn of the for loop of _prepare: check_fn is
\* called on the next tile and its identifier appended when it answers true
PrepareStep ==
    /\ pc = "filter" /\ tpc = "prepare"
    /\ Len(evals) < Len(topology)
    /\ LET tile == Len(evals) + 1
       IN  /\ evals' = Append(evals, tile)
           /\ filtered_identifiers' =
                 IF topology[tile]
                 THEN Append(filtered_identifiers, tile)
                 ELSE filtered_identifiers
    /\ UNCHANGED <<topology, tpc, mainVars, trainVars, loaderVars, indexVars, mergeVars, fnVars>>

\* inference.py:64 and 57, the loop is over: _prepare returns the list and
\* __init__ stores it
PrepareReturn ==
    /\ pc = "filter" /\ tpc = "prepare"
    /\ Len(evals) = Len(topology)
    /\ tpc' = "ready"
    /\ UNCHANGED <<topology, evals, filtered_identifiers,
                   mainVars, trainVars, loaderVars, indexVars, mergeVars, fnVars>>

\* inference.py:66-70, dataset[item] for any integer item around the valid
\* range; check_fn is not called
TileGetItem ==
    /\ pc = "filter" /\ tpc = "ready"
    /\ \E item \in (0 - Len(filtered_identifiers) - 2)..
                   (Len(filtered_identifiers) + 2) :
          /\ getArg' = item
          /\ getRes' = TileExclusionGetItem(0, Len(filtered_identifiers), item)
    /\ UNCHANGED <<mainVars, trainVars, loaderVars, mergeVars, fnVars, filterVars>>

NextFilter == PrepareStep \/ PrepareReturn \/ TileGetItem

SpecFilter == InitFilter /\ [][NextFilter]_vars

\* ------------------------------------------------------------ SpecLoader
\* The loop of main over the slides and, inside classify, the loop over the
\* DataLoader with num_workers workers.  With num_workers = 0 the loop loads
\* each batch itself; otherwise the workers load the batches of the slide
\* and the loop takes them in batch order.  model.forward is called in the
\* body of the loop of classify.
Task(sl, b) == [slide |-> sl, batch |-> b]
Invocation(sl, b, who) == [slide |-> sl, batch |-> b, by |-> who]

InitLoader ==
    /\ slide_no = 1
    /\ num_workers \in 0..MaxWorkers
    /\ n_batches \in 0..MaxBatches
    /\ workers = [w \in 1..num_workers |-> NoTask]
    /\ ready = {}
    /\ send_idx = 1
    /\ rcvd_idx = 1
    /\ forwarding = {}
    /\ forwarded = <<>>
    /\ lpc = "loop"
    /\ pc = "loader"
    /\ IdleMain
    /\ IdleTrain
    /\ sizes = <<>>
    /\ cumsum = <<>>
    /\ IdleIndex
    /\ IdleMerge
    /\ IdleFn
    /\ IdleFilter

\* inference.py:225 and 234, a worker of the loader is handed the next batch
\* of the slide
WorkerTake(w) ==
    /\ pc = "loader" /\ lpc \in {"loop", "forward"}
    /\ workers[w] = NoTask
    /\ send_idx <= n_batches
    /\ workers' = [workers EXCEPT ![w] = Task(slide_no, send_idx)]
    /\ send_idx' = send_idx + 1
    /\ UNCHANGED <<slide_no, num_workers, n_batches, ready, rcvd_idx,
                   forwarding, forwarded, lpc>>
    /\ UNCHANGED <<mainVars, trainVars, indexVars, mergeVars, fnVars, filterVars>>

\* a worker that calls the model on the batch it loaded
WorkerPutForwards(w) ==
    /\ pc = "loader" /\ lpc \in {"loop", "forward"}
    /\ workers[w] # NoTask
    /\ ready' = ready \cup {workers[w]}
    /\ workers' = [workers EXCEPT ![w] = NoTask]
    /\ forwarding' = forwarding
          \cup {Invocation(workers[w].slide, workers[w].batch, "worker")}
    /\ UNCHANGED <<slide_no, num_workers, n_batches, send_idx, rcvd_idx,
                   forwarded, lpc>>
    /\ UNCHANGED <<mainVars, trainVars, indexVars, mergeVars, fnVars, filterVars>>

\* inference.py:225 and 234, a worker has read the tiles of its batch from
\* the dataset and hands the batch over
WorkerPut(w) ==
    /\ pc = "loader" /\ lpc \in {"loop", "forward"}
    /\ workers[w] # NoTask
    /\ ready' = ready \cup {workers[w]}
    /\ workers' = [workers EXCEPT ![w] = NoTask]
    /\ UNCHANGED <<slide_no, num_workers, n_batches, send_idx, rcvd_idx,
                   forwarding, forwarded, lpc>>
    /\ UNCHANGED <<mainVars, trainVars, indexVars, mergeVars, fnVars, filterVars>>

\* inference.py:234-237, the loop gets the next batch, in batch order, and
\* calls model.forward on it
LoopNext ==
    /\ pc = "loader" /\ lpc = "loop"
    /\ rcvd_idx <= n_batches
    /\ num_workers = 0 \/ Task(slide_no, rcvd_idx) \in ready
    /\ ready' = ready \ {Task(slide_no, rcvd_idx)}
    /\ forwarding' = forwarding \cup {Invocation(slide_no, rcvd_idx, "loop")}
    /\ forwarded' = Append(forwarded, rcvd_idx)
    /\ lpc' = "forward"
    /\ UNCHANGED <<slide_no, num_workers, n_batches, workers, send_idx, rcvd_idx>>
    /\ UNCHANGED <<mainVars, trainVars, indexVars, mergeVars, fnVars, filterVars>>

\* inference.py:237-238, model.forward returns and the rows are stored
ForwardReturn ==
    /\ pc = "loader" /\ lpc = "forward"
    /\ forwarding' = forwarding \ {Invocation(slide_no, rcvd_idx, "loop")}
    /\ rcvd_idx' = rcvd_idx + 1
    /\ lpc' = "loop"
    /\ UNCHANGED <<slide_no, num_workers, n_batches, workers, ready, send_idx,
                   forwarded>>
    /\ UNCHANGED <<mainVars, trainVars, indexVars, mergeVars, fnVars, filterVars>>

\* main.py:63 and 85, main goes to the next slide, or leaves the loop after
\* the last one; classify builds a new loader for the new slide
NextSlide ==
    IF slide_no < NumSlides
    THEN /\ slide_no' = slide_no + 1
         /\ n_batches' \in 0..MaxBatches
         /\ send_idx' = 1
         /\ rcvd_idx' = 1
         /\ forwarded' = <<>>
         /\ lpc' = "loop"
    ELSE /\ lpc' = "done"
         /\ UNCHANGED <<slide_no, n_batches, send_idx, rcvd_idx, forwarded>>

\* inference.py:237 and main.py:81-85, model.forward raises: classify is
\* left, main's handler stores the fallback row, and the loader of the slide
\* goes away with classify's frame, which ends its workers
ForwardRaise ==
    /\ pc = "loader" /\ lpc = "forward"
    /\ forwarding' = forwarding \ {Invocation(slide_no, rcvd_idx, "loop")}
    /\ workers' = [w \in 1..num_workers |-> NoTask]
    /\ ready' = {}
    /\ NextSlide
    /\ UNCHANGED num_workers
    /\ UNCHANGED <<mainVars, trainVars, indexVars, mergeVars, fnVars, filterVars>>

\* inference.py:234 and 240-247, the loader is exhausted: classify ends and
\* main goes on
LoopEnd ==
    /\ pc = "loader" /\ lpc = "loop"
    /\ rcvd_idx > n_batches
    /\ NextSlide
    /\ UNCHANGED <<num_workers, workers, ready, forwarding>>
    /\ UNCHANGED <<mainVars, trainVars, indexVars, mergeVars, fnVars, filterVars>>

NextLoader ==
    \/ \E w \in 1..num_workers : WorkerTake(w)
    \/ \E w \in 1..num_workers : WorkerPut(w)
    \/ LoopNext
    \/ ForwardReturn
    \/ ForwardRaise
    \/ LoopEnd

SpecLoader == InitLoader /\ [][NextLoader]_vars

\* ------------------------------------------------------------- SpecTrain
\* generic_train.main.  A dataset is known by its origin: "empty",
\* "get_next" (add_data_state.get_next() as it is) or "new_crops" (crops with
\* the cues the network predicted), and by the epoch at whose end it was
\* made (-1 before the loop).  The value an epoch appends to a list of
\* results, and the dice it steps the scheduler with, is known by the epoch.

\* the first check only
RejectedFirstOnly(a) == a.no_groundtruth /\ a.sparse_start_after = -1

\* generic_train.py:137-141, the two argument checks
Rejected(a) ==
    \/ a.no_groundtruth /\ a.sparse_start_after = -1
    \/ a.no_groundtruth /\ a.no_distillation

\* a sparse dataset renewed only after the epoch that follows sparse_start_after
SparseDueStrict(a, ep) == a.sparse_start_after < ep

\* generic_train.py:288, the sparse dataset is renewed at the end of epoch ep
SparseDue(a, ep) == a.sparse_start_after <= ep

\* generic_train.py:98-135, the arguments that matter here
InitTrain ==
    /\ args \in [epochs : 0..MaxEpochs,
                 sparse_start_after : -1..MaxEpochs,
                 no_groundtruth : BOOLEAN,
                 no_distillation : BOOLEAN,
                 thyroid : BOOLEAN]
    /\ trpc = "check"
    /\ e = 0
    /\ made = {}
    /\ incomplete = EmptyIncomplete
    /\ sched_log = <<>>
    /\ trained_on = <<>>
    /\ results = NoResults
    /\ pc = "train"
    /\ IdleMain
    /\ IdleLoader
    /\ sizes = <<>>
    /\ cumsum = <<>>
    /\ IdleIndex
    /\ IdleMerge
    /\ IdleFn
    /\ IdleFilter

\* generic_train.py:137-141, either check raises ValueError
TrainCheckArgs ==
    /\ pc = "train" /\ trpc = "check"
    /\ trpc' = IF Rejected(args) THEN "ValueError" ELSE "setup"
    /\ UNCHANGED <<args, e, made, incomplete, sched_log, trained_on, results>>
    /\ UNCHANGED <<mainVars, loaderVars, indexVars, mergeVars, fnVars, filterVars>>

\* generic_train.py:143-220: the directories, the network, the optimizer and
\* the first scheduler, the results dictionary, the dataset generator (which
\* raises ValueError for a dataset other than "thyroid") and the first
\* incomplete dataset
TrainSetup ==
    /\ pc = "train" /\ trpc = "setup"
    /\ made' = {"save_path", "data_path", "working_path", "unet", "optimizer"}
    /\ sched_log' = <<[op |-> "create", epoch |-> -1]>>
    /\ IF ~args.thyroid
       THEN /\ trpc' = "ValueError"
            /\ UNCHANGED incomplete
       ELSE /\ trpc' = "loop"
            /\ incomplete' =
                  IF args.sparse_start_after >= 0
                  THEN EmptyIncomplete
                  ELSE [origin |-> "get_next", epoch |-> -1, cue_only |-> FALSE]
    /\ UNCHANGED <<args, e, trained_on, results>>
    /\ UNCHANGED <<mainVars, loaderVars, indexVars, mergeVars, fnVars, filterVars>>

\* generic_train.py:222-248, the for loop has an epoch left: the training
\* loader is built over [complete, incomplete] and the network is trained
TrainEpoch ==
    /\ pc = "train" /\ trpc = "loop"
    /\ e < args.epochs
    /\ trained_on' = Append(trained_on, incomplete)
    /\ trpc' = "eval"
    /\ UNCHANGED <<args, e, made, incomplete, sched_log, results>>
    /\ UNCHANGED <<mainVars, loaderVars, indexVars, mergeVars, fnVars, filterVars>>

\* generic_train.py:250-319, the end of epoch e: validation, the new
\* incomplete dataset when it is due, the scheduler re-created or stepped
\* with the dice, the weights saved and the four lists appended to
TrainEpochEnd ==
    /\ pc = "train" /\ trpc = "eval"
    /\ incomplete' =
          IF SparseDue(args, e)
          THEN IF args.no_distillation
               THEN [origin |-> "get_next", epoch |-> e, cue_only |-> FALSE]
               ELSE [origin |-> "new_crops", epoch |-> e,
                     cue_only |-> args.no_groundtruth]
          ELSE incomplete
    /\ sched_log' = Append(sched_log,
          [op |-> IF args.sparse_start_after = e THEN "create" ELSE "step",
           epoch |-> e])
    /\ results' = [val_losses |-> Append(results.val_losses, e),
                   val_dice |-> Append(results.val_dice, e),
                   val_metrics |-> Append(results.val_metrics, e),
                   save_path |-> Append(results.save_path, e)]
    /\ e' = e + 1
    /\ trpc' = "loop"
    /\ UNCHANGED <<args, made, trained_on>>
    /\ UNCHANGED <<mainVars, loaderVars, indexVars, mergeVars, fnVars, filterVars>>

\* generic_train.py:222 and 321, the loop is over: return results
TrainReturn ==
    /\ pc = "train" /\ trpc = "loop"
    /\ e >= args.epochs
    /\ trpc' = "returned"
    /\ UNCHANGED <<args, e, made, incomplete, sched_log, trained_on, results>>
    /\ UNCHANGED <<mainVars, loaderVars, indexVars, mergeVars, fnVars, filterVars>>

NextTrain ==
    TrainCheckArgs \/ TrainSetup \/ TrainEpoch \/ TrainEpochEnd \/ TrainReturn

SpecTrain == InitTrain /\ [][NextTrain]_vars

\* ================================================================ claims
Slides == 1..NumSlides
ZeroRow == [c \in 1..N_CLASSES |-> 0]
\* main is inside the body of the loop for slide i
InSlide == pc \in {"try", "next"}

C2_FailureNeverAbortsTheRun ==
    /\ pc \in {"loop", "try", "next", "done"}
    /\ \A s \in Slides :
          (log[s].term = "Raised" /\ (s < i \/ pc = "next")) =>
              /\ x[s] = FALLBACK_ROW
              /\ log[s].fallback
              /\ log[s].stage \in {"DetectingForeground", "BuildingDataset", "Inferring"}
    /\ (pc \in {"loop", "done"} => err = "none")
    /\ (pc = "done" => /\ i = NumSlides + 1
                       /\ \A s \in Slides : log[s].term # "none" /\ x[s] # ZeroRow)

\* the first slide failed while inferring and the last slide was decided
C2_Witness ==
    /\ pc = "done"
    /\ log[1].term = "Raised" /\ log[1].stage = "Inferring"
    /\ log[1].error = "InferenceError"
    /\ log[NumSlides].term = "Decided"

\* ---- C3: when detection yields zero polygons, classify ends in NoTissue
\* with decision 0 and neither builds the dataset nor calls the classifier
C3_ZeroPolygonsIsNoTissue ==
    /\ cpc = "NoTissue" =>
          /\ tissues = <<>> /\ ret = IntValue(0)
          /\ sizes = <<>> /\ cumsum = <<>> /\ probas = <<>> /\ index = 0
    /\ cpc \in {"BuildingDataset", "Inferring", "Decided"} => Len(tissues) > 0
    /\ InSlide => (log[i].term = "NoTissue" <=> cpc = "NoTissue")

\* classify has just returned 0 on a slide with no polygon
C3_Witness ==
    /\ pc = "try" /\ cpc = "NoTissue" /\ err = "none"
    /\ tissues = <<>> /\ ret = IntValue(0)
    /\ log[i].term = "NoTissue"

\* ---- C4: the fallback outcome is distinguishable from NoTissue: a slide
\* with zero polygons does not go through main's fallback branch, and the
\* fallback branch is taken by failed slides only
C4_NoTissueIsNotFallback ==
    \A s \in Slides :
        /\ log[s].term = "NoTissue" => ~log[s].fallback
        /\ log[s].fallback => log[s].term = "Raised"

\* the classifier raised on a batch and main has handled it
ClassifierRaised ==
    /\ pc = "next" /\ cpc = "Raised"
    /\ log[i].stage = "Inferring" /\ log[i].error = "InferenceError"

\* ---- C5 (as stated): when the classifier raises during a batch, the row
\* recorded for the slide is class 0 with as many votes as the slide has tiles
C5_FallbackVotesAreTileCount ==
    ClassifierRaised =>
        x[i] = [c \in 1..N_CLASSES |-> IF c = 1 THEN DatasetLen(sizes, cumsum) ELSE 0]

\* ---- C5 (amended): when the classifier raises during a batch, the row
\* recorded for the slide is class 0 with exactly one vote (all the votes of
\* the row), whatever the slide's tile count, and no exception escapes main
C5_FallbackIsOneVoteForClass0 ==
    /\ pc \in {"loop", "try", "next", "done"}
    /\ err = "InferenceError" => InSlide
    /\ ClassifierRaised =>
          /\ log[i].fallback
          /\ x[i][1] = 1
          /\ \A c \in 2..N_CLASSES : x[i][c] = 0

\* the classifier raised on the second batch of a slide of three tiles
C5_Witness ==
    /\ ClassifierRaised
    /\ DatasetLen(sizes, cumsum) = 3
    /\ index = BatchSize

\* ---- C6: for every vector of per-polygon sizes (zeros included) and every
\* flat index in [0, totalLength), __getitem__ resolves to one (polygon,
\* relative index) pair with 0 <= relative index < size of that polygon, and
\* the pairs of 0..totalLength-1 in order are the concatenation of the
\* per-polygon sequences in polygon order
RECURSIVE Concatenation(_, _)
Concatenation(sz, d) ==
    IF d > Len(sz) THEN <<>>
    ELSE [r \in 1..sz[d] |-> <<d - 1, r - 1>>] \o Concatenation(sz, d + 1)

C6_FlatIndexResolvesInOrder ==
    (getRes.kind # "none" /\ 0 <= getArg /\ getArg < SumSeq(sizes)) =>
        /\ getRes.kind = "item"
        /\ 0 <= getRes.dataset /\ getRes.dataset < Len(sizes)
        /\ 0 <= getRes.pos /\ getRes.pos < sizes[getRes.dataset + 1]
        /\ Concatenation(sizes, 1)[getArg + 1] = <<getRes.dataset, getRes.pos>>
        /\ Len(Concatenation(sizes, 1)) = DatasetLen(sizes, cumsum)

\* sizes 7, 0 and 5: index 7 is the first element of the third polygon
C6_Witness ==
    /\ sizes = <<7, 0, 5>>
    /\ getArg = 7
    /\ getRes = [kind |-> "item", dataset |-> 2, pos |-> 0, ordinal |-> 1]

\* ---- C7: __getitem__ with a flat index outside [0, totalLength), negative
\* indexes included, is an indexing error and returns no element
C7_OutOfRangeIsIndexError ==
    (getRes.kind # "none" /\ (getArg < 0 \/ getArg >= SumSeq(sizes))) =>
        getRes.kind = "IndexError"

\* all the polygons of the slide were dropped by the dataset's size filter
AllDropped ==
    /\ InSlide /\ cpc # "BuildingDataset"
    /\ tissues # <<>>
    /\ SelectSeq(tissues, LargeEnough) = <<>>

\* ---- C8: constructing the dataset never raises because of polygons whose
\* window is smaller than a tile: each is excluded and the others are kept,
\* also when every polygon is too small
C8_SmallPolygonsNeverRaise ==
    /\ ~(InSlide /\ cpc = "Raised" /\ log[i].stage = "BuildingDataset")
    /\ cpc \in {"Inferring", "Decided"} =>
          Len(sizes) = Len(SelectSeq(tissues, LargeEnough))

\* ---- C9: if every polygon is dropped while the dataset is built, the slide
\* ends as NoTissue (decision 0), not in the error fallback
C9_AllDroppedIsNoTissue ==
    AllDropped =>
        /\ log[i].term = "NoTissue" /\ log[i].error = "none"
        /\ ret = IntValue(0)

\* ---- C10: no two polygons of the list the merge step produces intersect
\* each other, whatever the polygons and their order in the input list
C10_MergedPolygonsAreDisjoint ==
    mpc = "merged" =>
        \A a, b \in 1..Len(checked_for_merge) :
            a # b => ~Intersects(checked_for_merge[a], checked_for_merge[b])

\* three polygons, the first meeting only the third: two polygons come out
C10_Witness ==
    /\ mpc = "merged"
    /\ Len(filtered) = 3
    /\ ~Intersects(filtered[1], filtered[2])
    /\ Intersects(filtered[1], filtered[3])
    /\ Len(checked_for_merge) = 2

\* the longer edge of the image of level k: each side of level 0 halved k
\* times, as an integer
LongerEdge(c, k) == Max(c.max_width \div Pow2(k), c.max_height \div Pow2(k))

\* ---- C11: determine_tissue_extract_level returns the smallest level of
\* 0..levels-1 whose longer edge is <= the target size, and the coarsest
\* level, levels-1, when no level is that small
C11_SmallestLevelThatFits ==
    (call.fn = "determine_tissue_extract_level" /\ out # None) =>
        LET fits == {k \in 0..(call.levels - 1) :
                        LongerEdge(call, k) <= call.desired_processing_size}
        IN  /\ out.kind = "int"
            /\ IF fits = {}
               THEN out.val = call.levels - 1
               ELSE out.val \in fits /\ \A k \in fits : out.val <= k

\* three levels, level 0 and 1 too large, level 2 exactly the target size
C11_Witness ==
    /\ call.fn = "determine_tissue_extract_level" /\ out = IntValue(2)
    /\ call.levels = 3
    /\ LongerEdge(call, 1) > TargetSize
    /\ LongerEdge(call, 2) = TargetSize

\* ---- C12: the length of the multi-polygon dataset is the sum of the sizes
\* of its per-polygon datasets, and its prefix-sum vector has one entry per
\* dataset, entry j (0-based) being the sum of the sizes 0..j-1, entry 0 = 0
C12_LengthAndExclusivePrefixSums ==
    pc = "index" =>
        /\ DatasetLen(sizes, cumsum) = SumSeq(sizes)
        /\ Len(cumsum) = Len(sizes)
        /\ cumsum[1] = 0
        /\ \A j \in 1..Len(sizes) : cumsum[j] = SumSeq(SubSeq(sizes, 1, j - 1))

\* three per-polygon datasets, the middle one empty, and an item was read
C12_Witness ==
    /\ pc = "index" /\ getRes # NoCall
    /\ Len(sizes) = 3 /\ sizes[1] > 0 /\ sizes[2] = 0 /\ sizes[3] > 0
    /\ cumsum = <<0, sizes[1], sizes[1]>>
    /\ DatasetLen(sizes, cumsum) = sizes[1] + sizes[3]

\* the identifiers of the tiles of t for which the predicate is true, in
\* topology order
RECURSIVE KeptOf(_)
KeptOf(t) ==
    IF t = <<>> THEN <<>>
    ELSE LET n == Len(t)
             head == KeptOf(SubSeq(t, 1, n - 1))
         IN  IF t[n] THEN Append(head, n) ELSE head

\* ---- C13: TileExclusionDataset evaluates the predicate once per tile, in
\* topology order, during construction only; the kept identifiers are
\* exactly the tiles for which it answered true, in the same order;
\* dataset[j] for j in 0..m-1 reads the j-th kept identifier; and indexing
\* the constructed dataset never evaluates the predicate again
C13_EagerFilterOncePerTile ==
    /\ [](pc = "filter" =>
            /\ evals = [k \in 1..Len(evals) |-> k]
            /\ Len(evals) <= Len(topology)
            /\ filtered_identifiers = KeptOf(SubSeq(topology, 1, Len(evals)))
            /\ tpc = "ready" =>
                  /\ Len(evals) = Len(topology)
                  /\ filtered_identifiers = KeptOf(topology)
                  /\ (getRes # NoCall /\ 0 <= getArg
                        /\ getArg < Len(filtered_identifiers)) =>
                        /\ getRes.kind = "item"
                        /\ getRes.pos = getArg)
    /\ [][(pc = "filter" /\ tpc = "ready") =>
            (evals' = evals /\ filtered_identifiers' = filtered_identifiers)]_vars

\* four tiles, the second and the fourth kept, and the second kept tile read
C13_Witness ==
    /\ pc = "filter" /\ tpc = "ready"
    /\ topology = <<FALSE, TRUE, FALSE, TRUE>>
    /\ evals = <<1, 2, 3, 4>>
    /\ filtered_identifiers = <<2, 4>>
    /\ getArg = 1 /\ getRes.kind = "item" /\ getRes.pos = 1

\* ---- C14: TileExclusionDataset.__getitem__ with an index outside [0, m),
\* m the number of kept tiles, negative indexes included, is an error
C14_OutOfRangeIsError ==
    (pc = "filter" /\ tpc = "ready" /\ getRes # NoCall
       /\ ~(0 <= getArg /\ getArg < Len(filtered_identifiers))) =>
        getRes = NoItem

\* the longer and the shorter side of the bounding box of the call
LongerSide(c) == Max(c.width, c.height)
ShorterSide(c) == Min(c.width, c.height)

\* ---- C15 (as stated): the shape filter drops a merged polygon if and only
\* if the ratio longer side / shorter side of its bounding box exceeds 20,
\* so that a ratio of exactly 20 is kept
C15_DropsIffRatioExceeds20 ==
    (call.fn = "filter_by_shape" /\ out # None) =>
        (out = BoolValue(FALSE)
           <=> LongerSide(call) > ASPECT_LIMIT * ShorterSide(call))

\* ---- C15 (amended): the shape filter answers keep or drop for every
\* polygon of positive width and height, and drops it if and only if the
\* ratio longer side / shorter side is at least 20: exactly 20 is dropped
C15_DropsIffRatioAtLeast20 ==
    (call.fn = "filter_by_shape" /\ out # None) =>
        /\ out.kind = "bool"
        /\ out.val \in BOOLEAN
        /\ out.val = FALSE
             <=> LongerSide(call) >= ASPECT_LIMIT * ShorterSide(call)

\* a box twenty times wider than high is dropped
C15_Witness ==
    /\ call.fn = "filter_by_shape"
    /\ call.height = 2 /\ call.width = ASPECT_LIMIT * call.height
    /\ out = BoolValue(FALSE)

C17_ReturnIsClassId ==
    cpc \in {"NoTissue", "Decided"} =>
        /\ ret.kind = "int"
        /\ 0 <= ret.val
        /\ ret.val < N_CLASSES

\* classify returned the highest class id after inference over several tiles
C17_Witness ==
    /\ cpc = "Decided"
    /\ Len(probas) >= 2
    /\ ret = IntValue(N_CLASSES - 1)

\* the orders of n rows: the bijections of 1..n
RowOrders(n) == Permutations(1..n)

\* ---- C18: the slide decision does not depend on the order in which the
\* batches and their tiles are processed: with the rows of probas in any
\* other order, the per-class counts and the decision are the same
C18_DecisionIsOrderIndependent ==
    cpc = "Decided" =>
        \A f \in RowOrders(Len(probas)) :
            LET permuted == [k \in 1..Len(probas) |-> probas[f[k]]]
            IN  /\ class_dict(ArgmaxRows(permuted))
                     = class_dict(ArgmaxRows(probas))
                /\ IntValue(Decision(ArgmaxRows(permuted))) = ret

\* three tiles in two batches whose classes are all different, the highest
\* class neither first nor last
C18_Witness ==
    /\ cpc = "Decided"
    /\ Len(probas) = 3
    /\ ArgmaxRows(probas) = <<0, 3, 1>>
    /\ ret = IntValue(3)

\* ---- C19: with any number of workers, at most one invocation of the
\* classifier is in progress at any time and it is made by the loop of
\* classify on the slide main is at; the classifier is called exactly once
\* on each batch the loop has taken, in batch order, and on every batch of
\* the slide when the loop ends; and the workers hold batches of no other
\* slide than the one main is at
C19_OneForwardAtATimeOncePerBatch ==
    pc = "loader" =>
        /\ Cardinality(forwarding) <= 1
        /\ \A f \in forwarding :
              /\ f.by = "loop" /\ f.slide = slide_no /\ f.batch = rcvd_idx
              /\ lpc = "forward"
        /\ lpc = "forward" => forwarding = {Invocation(slide_no, rcvd_idx, "loop")}
        /\ lpc = "loop" => forwarded = [b \in 1..(rcvd_idx - 1) |-> b]
        /\ lpc = "forward" => forwarded = [b \in 1..rcvd_idx |-> b]
        /\ (lpc = "loop" /\ rcvd_idx > n_batches) =>
              forwarded = [b \in 1..n_batches |-> b]
        /\ \A w \in 1..num_workers :
              workers[w] # NoTask => workers[w].slide = slide_no
        /\ \A t \in ready : t.slide = slide_no

\* on the second slide, two workers are loading later batches while the
\* loop's call of the classifier on the first batch is in progress
C19_Witness ==
    /\ pc = "loader" /\ lpc = "forward"
    /\ slide_no = 2 /\ num_workers = 2 /\ n_batches = 3
    /\ forwarding = {Invocation(2, 1, "loop")}
    /\ workers = <<Task(2, 2), Task(2, 3)>>

StageEdges ==
    { <<"Idle", "DetectingForeground">>,
      <<"DetectingForeground", "NoTissue">>,
      <<"DetectingForeground", "BuildingDataset">>,
      <<"BuildingDataset", "Inferring">>,
      <<"Inferring", "Decided">> }
RaiseEdges ==
    { <<"DetectingForeground", "Raised">>,
      <<"BuildingDataset", "Raised">>,
      <<"Inferring", "Raised">> }

\* ---- C21: within a slide, classify moves only along Idle ->
\* DetectingForeground -> (NoTissue | BuildingDataset) -> Inferring ->
\* Decided, or leaves that path by raising: the dataset is built only after
\* detection returned at least one polygon, the classifier is first called
\* only after the dataset was built, the decision is taken only after every
\* batch was processed, and NoTissue and Decided are left only for the next
\* slide
C21_StagesInOrder ==
    /\ [](/\ cpc \in {"BuildingDataset", "Inferring", "Decided"} => Len(tissues) > 0
          /\ cpc \in {"Idle", "DetectingForeground", "NoTissue", "BuildingDataset"}
               => (index = 0 /\ probas = <<>>)
          /\ cpc \in {"Inferring", "Decided"} =>
               /\ sizes # <<>>
               /\ Len(probas) = DatasetLen(sizes, cumsum)
          /\ cpc = "Decided" => index = DatasetLen(sizes, cumsum))
    /\ [][/\ (i' = i /\ cpc' # cpc) => <<cpc, cpc'>> \in StageEdges \cup RaiseEdges
          /\ (i' # i) => (cpc' = "Idle" /\ i' = i + 1)
          /\ (cpc \in {"NoTissue", "Decided"} /\ i' = i) =>
                (cpc' = cpc /\ ret' = ret)]_vars

\* a slide of two batches has been decided
C21_Witness ==
    /\ cpc = "Decided"
    /\ index = DatasetLen(sizes, cumsum)
    /\ index > BatchSize

\* the sum of the counts of a class_dict
TotalCount(cd) == SumSeq([c \in 1..N_CLASSES |-> cd[c - 1]])

\* ---- C22: the batches fill consecutive, non-overlapping ranges of probas
\* (a turn of the loop writes the rows index .. index + n_samples - 1 and
\* leaves the rows before them as they are), so that when the loop completes
\* every tile of the dataset has been written exactly once, the number of
\* rows written is len(dataset), and the per-class counts sum to it
C22_EveryTilePredictedOnce ==
    /\ [](cpc \in {"Inferring", "Decided"} =>
            /\ index <= DatasetLen(sizes, cumsum)
            /\ index % BatchSize = 0 \/ index = DatasetLen(sizes, cumsum)
            /\ \A k \in 1..Len(probas) :
                  IF k <= index THEN probas[k] \in ProbaRows
                  ELSE probas[k] = [c \in 1..N_CLASSES |-> 0]
            /\ index = DatasetLen(sizes, cumsum) =>
                  /\ Len(ArgmaxRows(probas)) = DatasetLen(sizes, cumsum)
                  /\ TotalCount(class_dict(ArgmaxRows(probas)))
                        = DatasetLen(sizes, cumsum))
    /\ [][(cpc = "Inferring" /\ cpc' = "Inferring" /\ index' # index) =>
            /\ index' = index + Min(BatchSize, DatasetLen(sizes, cumsum) - index)
            /\ \A k \in 1..index : probas'[k] = probas[k]
            /\ \A k \in (index' + 1)..Len(probas) : probas'[k] = probas[k]]_vars

\* three tiles in a full and a partial batch, all written, the loop over
C22_Witness ==
    /\ cpc = "Inferring"
    /\ DatasetLen(sizes, cumsum) = BatchSize + 1
    /\ index = BatchSize + 1
    /\ \A k \in 1..Len(probas) : probas[k] \in ProbaRows

\* max(floor(0.005 * max(height, width)), 3), five thousandths being 1 / 200
KernelTarget(c) ==
    LET m == Max(c.height, c.width)
        f == CHOOSE n \in 0..m : 200 * n <= m /\ m < 200 * (n + 1)
    IN  IF f > 3 THEN f ELSE 3

\* ---- C23: for every image size the side of the structuring element is an
\* odd integer >= 3: it is max(floor(0.005 * max(height, width)), 3) when
\* that value is odd and an adjacent odd value otherwise
C23_KernelSideIsOddAtLeast3 ==
    (call.fn = "kernel_dim" /\ out # None) =>
        /\ out.kind = "int"
        /\ out.val >= 3
        /\ out.val % 2 = 1
        /\ IF KernelTarget(call) % 2 = 1
           THEN out.val = KernelTarget(call)
           ELSE out.val \in {KernelTarget(call) - 1, KernelTarget(call) + 1}

\* an image of 1200 by 999: the floor is 6 and the side is 5
C23_Witness ==
    /\ call.fn = "kernel_dim" /\ call.height = 1200 /\ call.width = 999
    /\ KernelTarget(call) = 6
    /\ out = IntValue(5)

\* ---- C24: for every valid dense index d of a per-polygon dataset,
\* __getitem__(d) returns the ordinal d + 1 together with the tile whose
\* identifier is stored at position d of the filtered sequence; so the
\* ordinals returned through the multi-polygon dataset for valid flat indexes
\* lie in [1, size of the owning polygon's dataset]
C24_OrdinalIsDenseIndexPlusOne ==
    (pc = "index" /\ getRes # NoCall
       /\ 0 <= getArg /\ getArg < DatasetLen(sizes, cumsum)) =>
        /\ getRes.kind = "item"
        /\ getRes.dataset \in 0..(Len(sizes) - 1)
        /\ LET d == getArg - cumsum[getRes.dataset + 1]
           IN  /\ 0 <= d /\ d < sizes[getRes.dataset + 1]
               /\ getRes.pos = d
               /\ getRes.ordinal = d + 1
        /\ 1 <= getRes.ordinal
        /\ getRes.ordinal <= sizes[getRes.dataset + 1]

\* the last tile of the second of two polygons: its ordinal is the size of
\* that polygon's dataset
C24_Witness ==
    /\ pc = "index" /\ Len(sizes) = 2 /\ sizes[1] > 0 /\ sizes[2] > 1
    /\ getArg = DatasetLen(sizes, cumsum) - 1
    /\ getRes.kind = "item" /\ getRes.dataset = 1
    /\ getRes.ordinal = sizes[2]

\* the row main is meant to store: the per-class counts of the tiles
CountsRow(classes) == [c \in 1..N_CLASSES |-> class_dict(classes)[c - 1]]

\* ---- C25: for every slide whose classify call returned normally (NoTissue
\* or Decided), once main is done with the slide the row x[i] holds the
\* per-class tile counts of the slide and the fallback branch was not taken
C25_NormalReturnRecordsCounts ==
    (pc = "next" /\ log[i].term \in {"NoTissue", "Decided"}) =>
        /\ ~log[i].fallback
        /\ x[i] = CountsRow(ArgmaxRows(probas))

\* ---- C26: the merge loop terminates: it starts with the polygons that
\* passed the area filter, every turn takes exactly one polygon off the
\* work list and puts none on it, the loop ends when the list is empty (so
\* after as many turns as there were polygons), and it leaves between 1 and
\* that many polygons
C26_MergeLoopTerminates ==
    /\ <>(mpc = "merged")
    /\ [](mpc = "merge" =>
            /\ Len(to_check_for_merge) <= Len(filtered)
            /\ Len(checked_for_merge) + Len(to_check_for_merge) <= Len(filtered)
            /\ checked_for_merge = <<>> => to_check_for_merge # <<>>)
    /\ [](mpc = "merged" =>
            /\ to_check_for_merge = <<>>
            /\ 1 <= Len(checked_for_merge)
            /\ Len(checked_for_merge) <= Len(filtered))
    /\ [][(mpc = "merge" /\ mpc' = "merge") =>
            /\ Len(to_check_for_merge') = Len(to_check_for_merge) - 1
            /\ Len(checked_for_merge') \in
                  {Len(checked_for_merge), Len(checked_for_merge) + 1}]_vars
    /\ [][(mpc = "merge" /\ mpc' = "merged") =>
            (to_check_for_merge = <<>> /\ UNCHANGED checked_for_merge)]_vars

\* three polygons that all meet went in and one came out
C26_Witness ==
    /\ mpc = "merged"
    /\ Len(filtered) = 3
    /\ to_check_for_merge = <<>>
    /\ Len(checked_for_merge) = 1

\* the region covered by the polygons of a list
Region(polys) == UNION {polys[k] : k \in 1..Len(polys)}

\* ---- C27: the merge step neither loses nor invents area: at every turn
\* the work list and the output together cover the region of the input, the
\* output covers exactly that region, and every input polygon is contained
\* in exactly one output polygon
C27_MergeKeepsTheRegion ==
    /\ mpc \in {"merge", "merged"} =>
          Region(to_check_for_merge) \cup Region(checked_for_merge)
             = Region(filtered)
    /\ mpc = "merged" =>
          /\ Region(checked_for_merge) = Region(filtered)
          /\ \A a \in 1..Len(filtered) :
                Cardinality({b \in 1..Len(checked_for_merge) :
                               filtered[a] \subseteq checked_for_merge[b]}) = 1

\* three polygons, the first two apart and the third meeting both: one
\* polygon comes out, larger than each of them
C27_Witness ==
    /\ mpc = "merged"
    /\ Len(filtered) = 3
    /\ ~Intersects(filtered[1], filtered[2])
    /\ Intersects(filtered[1], filtered[3])
    /\ Intersects(filtered[2], filtered[3])
    /\ checked_for_merge = <<Region(filtered)>>
    /\ \A a \in 1..3 : filtered[a] # Region(filtered)

\* a dataset was built for the slide and it holds no tile
EmptyDataset == sizes # <<>> /\ DatasetLen(sizes, cumsum) = 0

\* ---- C28: when at least one polygon survives dataset construction but the
\* dataset holds no tile, classify does not return a class: the maximum over
\* the empty classes raises ValueError after the (empty) loop, and main
\* records the fallback row for that slide
C28_EmptyDatasetRaises ==
    /\ cpc = "Decided" => ~EmptyDataset
    /\ (InSlide /\ EmptyDataset /\ cpc # "Inferring") =>
          /\ cpc = "Raised"
          /\ ret = None
          /\ log[i].term = "Raised"
          /\ log[i].stage = "Inferring"
          /\ log[i].error = "ValueError"
          /\ index = 0 /\ probas = <<>>
    /\ (pc = "next" /\ EmptyDataset) =>
          /\ x[i] = FALLBACK_ROW
          /\ log[i].fallback

\* main is done with a slide of two polygons whose datasets are both empty
C28_Witness ==
    /\ pc = "next"
    /\ sizes = <<0, 0>>
    /\ log[i].error = "ValueError" /\ log[i].stage = "Inferring"
    /\ x[i] = FALLBACK_ROW

\* ---- C29: with sparse_start_after = s >= 0, the incomplete dataset of the
\* training loader of epoch ep is empty for every ep <= s and is the one
\* made at the end of epoch ep - 1 for every ep > s; the scheduler is
\* re-created at the end of epoch s and stepped with the dice of the epoch
\* at the end of every other epoch
C29_SparseDataAndSchedulerByEpoch ==
    (pc = "train" /\ args.sparse_start_after >= 0
       /\ trpc \in {"loop", "eval", "returned"}) =>
        /\ \A k \in 1..Len(trained_on) :
              IF k - 1 <= args.sparse_start_after
              THEN trained_on[k].origin = "empty"
              ELSE /\ trained_on[k].origin # "empty"
                   /\ trained_on[k].epoch = k - 2
        /\ Len(trained_on) = IF trpc = "eval" THEN e + 1 ELSE e
        /\ Len(sched_log) = e + 1
        /\ sched_log[1] = [op |-> "create", epoch |-> -1]
        /\ \A ep \in 0..(e - 1) :
              sched_log[ep + 2] =
                 [op |-> IF ep = args.sparse_start_after THEN "create" ELSE "step",
                  epoch |-> ep]

\* three epochs with sparse_start_after = 1: the first two train without
\* sparse data, the third on the crops made at the end of epoch 1
C29_Witness ==
    /\ pc = "train" /\ trpc = "returned"
    /\ args.epochs = 3 /\ args.sparse_start_after = 1
    /\ trained_on[1] = EmptyIncomplete /\ trained_on[2] = EmptyIncomplete
    /\ trained_on[3].origin = "new_crops" /\ trained_on[3].epoch = 1
    /\ sched_log[3].op = "create" /\ sched_log[4].op = "step"

\* ---- C30: main raises ValueError for no_groundtruth with
\* sparse_start_after = -1 and for no_groundtruth with no_distillation,
\* before any directory or model is made and before any epoch; and the lists
\* val_losses, val_dice, val_metrics and save_path of the results a run of E
\* epochs returns have exactly E entries each
C30_RejectsEarlyAndReturnsOnePerEpoch ==
    pc = "train" =>
        /\ (Rejected(args) /\ trpc # "check") =>
              /\ trpc = "ValueError"
              /\ made = {} /\ sched_log = <<>>
              /\ trained_on = <<>> /\ results = NoResults /\ e = 0
        /\ ((args.no_groundtruth /\ args.sparse_start_after = -1)
              \/ (args.no_groundtruth /\ args.no_distillation)) => Rejected(args)
        /\ (trpc = "ValueError" /\ made = {}) => Rejected(args)
        /\ trpc = "returned" =>
              /\ ~Rejected(args)
              /\ Len(results.val_losses) = args.epochs
              /\ Len(results.val_dice) = args.epochs
              /\ Len(results.val_metrics) = args.epochs
              /\ Len(results.save_path) = args.epochs
              /\ Len(trained_on) = args.epochs

\* an accepted run without ground truth has returned after three epochs
C30_Witness ==
    /\ pc = "train" /\ trpc = "returned"
    /\ args.epochs = 3 /\ args.no_groundtruth
    /\ Len(results.save_path) = 3

====
